---------------------------- MODULE Spec2Model ----------------------------
(***************************************************************************)
(* Model of the query layer of the MedifinderMCP server                    *)
(* (app/db/queries.py and its callers in app/mcp/tools.py and              *)
(* app/mcp/resources.py).                                                  *)
(*                                                                         *)
(* Strings are sequences of one-character strings over a small alphabet    *)
(* that holds a lower/upper case pair, a second letter and the three       *)
(* characters that are special in a LIKE pattern.  Tables are functions    *)
(* from primary keys to rows.  A nullable column holds NULL (the empty     *)
(* tuple) or Some(v) (the one-element tuple).                              *)
(***************************************************************************)
EXTENDS Integers, Sequences, FiniteSets, TLC

VARIABLES
    products,            \* products table: product_id -> [name]
    regions,             \* regions table: region_id -> [name]
    centers,             \* medical_centers table: center_id -> [region_id, category]
    inventory,           \* inventory table: inventory_id -> [center_id, product_id, current_stock]
    max_search_results,  \* app.config.MAX_SEARCH_RESULTS as read from the environment
    ret,                 \* the last call: its operation, arguments and outcome
    sessions,            \* the Session objects: session -> [users, pending]
    calls                \* the calls in progress: thread -> its position and locals

vars == <<products, regions, centers, inventory, max_search_results, ret, sessions, calls>>

\* The session objects and the calls that run step by step.
scopes == <<sessions, calls>>

store == <<products, regions, centers, inventory>>

---------------------------------------------------------------------------
(* Bounds *)

MaxNameLen == 2      \* longest stored name
MaxQueryLen == 1     \* longest search string passed by a caller
MaxProducts == 3     \* most rows of the products table
MaxCap == 1          \* largest small value of the configured cap
MaxLimit == 1        \* largest explicit limit argument
MaxLocNameLen == 1   \* longest region name of the location stores
MaxAvailRows == 4    \* inventory rows (and centers) of the availability stores
MaxByIdRows == 2     \* most inventory rows of the point-lookup stores
MaxIdLen == 2        \* longest id string passed to get_product_resource
MaxStatRows == 3     \* most inventory rows of the aggregation stores
MaxStatRegions == 2  \* most regions of the aggregation stores
MaxSupplyRows == 2   \* most inventory rows of the supply-metric stores

(* Program constants *)

DEFAULT_MIN_STOCK == 1               \* queries.py: min_stock=1
MAX_SEARCH_RESULTS_DEFAULT == 50     \* config.py: os.getenv("MAX_SEARCH_RESULTS", "50")

---------------------------------------------------------------------------
(* Strings *)

Chars == {"a", "A", "b", "%", "_", "\\"}

StrUpTo(n) == UNION {[1..k -> Chars] : k \in 0..n}

\* Characters of the names the store holds: letters.
StoredChars == {"a", "A", "b"}

StoredStrUpTo(n) == UNION {[1..k -> StoredChars] : k \in 1..n}

NULL == <<>>

Some(v) == <<v>>

IsNull(x) == x = NULL

Val(x) == x[1]

\* Case folding, as ILIKE applies it to both operands.
Lower(c) == IF c = "A" THEN "a" ELSE c

\* PostgreSQL's LIKE matcher on case-folded text: % matches any run of
\* characters, _ any one character, and a backslash (the default escape,
\* no ESCAPE clause is given) makes the next pattern character literal.
RECURSIVE LikeFrom(_, _, _, _)
LikeFrom(s, i, p, j) ==
    IF j > Len(p) THEN i > Len(s)
    ELSE IF p[j] = "\\" THEN
        IF j + 1 > Len(p) THEN FALSE
        ELSE /\ i <= Len(s)
             /\ Lower(s[i]) = Lower(p[j + 1])
             /\ LikeFrom(s, i + 1, p, j + 2)
    ELSE IF p[j] = "%" THEN
        \/ LikeFrom(s, i, p, j + 1)
        \/ (i <= Len(s) /\ LikeFrom(s, i + 1, p, j))
    ELSE IF p[j] = "_" THEN
        i <= Len(s) /\ LikeFrom(s, i + 1, p, j + 1)
    ELSE /\ i <= Len(s)
         /\ Lower(s[i]) = Lower(p[j])
         /\ LikeFrom(s, i + 1, p, j + 1)

\* column.ilike(pattern)
ILike(s, p) == LikeFrom(s, 1, p, 1)

\* f"%{term}%"
SearchTerm(term) == <<"%">> \o term \o <<"%">>

---------------------------------------------------------------------------
(* SQL result sets *)

Min(a, b) == IF a <= b THEN a ELSE b

\* Every order in which the rows of S can be delivered.
Perms(S) == {q \in [1..Cardinality(S) -> S] : \A i, j \in DOMAIN q : i # j => q[i] # q[j]}

\* query.limit(n).all() on rows delivered in the order q
Limit(q, n) == SubSeq(q, 1, Min(n, Len(q)))

\* The empty table
EmptyTable == <<>>

---------------------------------------------------------------------------
(* app/db/queries.py *)

\* Product.to_dict(), read inside the session that loaded the row
ProductDict(id) == [product_id |-> id, name |-> products[id].name]

\* WHERE products.name ILIKE '%name%'
NameMatches(name) == {id \in DOMAIN products : ILike(products[id].name, SearchTerm(name))}

\* search_medicines_by_name(name, limit): the query has no ORDER BY, so the
\* rows come in any order and LIMIT keeps the first `limit` of them.
SearchMedicinesByNameResults(name, limit) ==
    {[i \in DOMAIN Limit(q, limit) |-> ProductDict(Limit(q, limit)[i])] : q \in Perms(NameMatches(name))}

SearchByName(name, limit) ==
    /\ \E rows \in SearchMedicinesByNameResults(name, limit) :
          ret' = [op |-> "search_by_name", name |-> name, limit |-> limit, rows |-> rows]
    /\ UNCHANGED <<store, max_search_results, scopes>>

\* Inventory rows that survive the three inner joins
\* Product JOIN Inventory JOIN MedicalCenter JOIN Region.
JoinedRows ==
    {inv \in DOMAIN inventory :
        /\ inventory[inv].product_id \in DOMAIN products
        /\ inventory[inv].center_id \in DOMAIN centers
        /\ ~IsNull(centers[inventory[inv].center_id].region_id)
        /\ Val(centers[inventory[inv].center_id].region_id) \in DOMAIN regions}

CenterOf(inv) == centers[inventory[inv].center_id]

RegionOf(inv) == regions[Val(CenterOf(inv).region_id)]

ProductOf(inv) == products[inventory[inv].product_id]

\* `if categoria:` - None and the empty string are both falsy
Truthy(categoria) == ~IsNull(categoria) /\ Val(categoria) # <<>>

\* WHERE regions.name ILIKE '%diresa%' [AND medical_centers.category ILIKE '%categoria%']
LocationMatches(diresa, categoria) ==
    {inv \in JoinedRows :
        /\ ILike(RegionOf(inv).name, SearchTerm(diresa))
        /\ Truthy(categoria) =>
              /\ ~IsNull(CenterOf(inv).category)
              /\ ILike(Val(CenterOf(inv).category), SearchTerm(Val(categoria)))}

\* product.to_dict() with product_dict["inventory"] = inventory.to_dict()
LocationDict(inv) ==
    [product_id |-> inventory[inv].product_id,
     inventory_id |-> inv,
     center_id |-> inventory[inv].center_id]

\* search_medicines_by_location(diresa, categoria, limit): no ORDER BY
SearchMedicinesByLocationResults(diresa, categoria, limit) ==
    {[i \in DOMAIN Limit(q, limit) |-> LocationDict(Limit(q, limit)[i])] :
        q \in Perms(LocationMatches(diresa, categoria))}

SearchByLocation(diresa, categoria, limit) ==
    /\ \E rows \in SearchMedicinesByLocationResults(diresa, categoria, limit) :
          ret' = [op |-> "search_by_location", diresa |-> diresa,
                  categoria |-> categoria, limit |-> limit, rows |-> rows]
    /\ UNCHANGED <<store, max_search_results, scopes>>

\* WHERE products.name ILIKE '%medicine_name%' AND inventory.current_stock >= min_stock
\* (a NULL stock compares to NULL and the row is dropped)
AvailableMatches(medicine_name, min_stock) ==
    {inv \in JoinedRows :
        /\ ILike(ProductOf(inv).name, SearchTerm(medicine_name))
        /\ ~IsNull(inventory[inv].current_stock)
        /\ Val(inventory[inv].current_stock) >= min_stock}

\* ORDER BY inventory.current_stock DESC: rows of equal stock come in any order
StockDescending(q) ==
    \A i, j \in DOMAIN q :
        i < j => Val(inventory[q[i]].current_stock) >= Val(inventory[q[j]].current_stock)

\* The flat record of one row.  center_id and inventory_id stand for the
\* center columns (center_name, reporter_name, category, region) of the row.
AvailableDict(inv) ==
    [inventory_id |-> inv,
     center_id |-> inventory[inv].center_id,
     stock |-> Val(inventory[inv].current_stock)]

\* get_available_medicine_locations(medicine_name, min_stock): no LIMIT
GetAvailableMedicineLocationsResults(medicine_name, min_stock) ==
    {[i \in DOMAIN q |-> AvailableDict(q[i])] :
        q \in {o \in Perms(AvailableMatches(medicine_name, min_stock)) : StockDescending(o)}}

GetAvailableLocations(medicine_name, min_stock) ==
    /\ \E rows \in GetAvailableMedicineLocationsResults(medicine_name, min_stock) :
          ret' = [op |-> "get_available_locations", medicine_name |-> medicine_name,
                  min_stock |-> min_stock, rows |-> rows]
    /\ UNCHANGED <<store, max_search_results, scopes>>

---------------------------------------------------------------------------
(* app/db/connection.py: what a db_session scope does to a loaded entity *)

\* An entity as the query loads it: attributes in memory, bound to the session.
Loaded(id) == [product_id |-> id, expired |-> FALSE, attached |-> TRUE]

\* session.commit(): sessionmaker(bind=engine) keeps expire_on_commit, so
\* every loaded attribute is expired and must be read again from the store.
AfterCommit(e) == [e EXCEPT !.expired = TRUE]

\* session.close(): the entity is expunged from the session.
AfterClose(e) == [e EXCEPT !.attached = FALSE]

\* Leaving `with db_session()` without an exception: commit, then close.
AfterScope(e) == AfterClose(AfterCommit(e))

\* Reading an attribute of an expired entity reloads it through its
\* session; an entity bound to no session raises DetachedInstanceError.
ReadRaises(e) == e.expired /\ ~e.attached

---------------------------------------------------------------------------
(* Point lookup and its callers *)

\* .filter(Product.product_id == medicine_id).first() where one() would
\* raise NoResultFound on an absent id
GetMedicineByIdOne(medicine_id, fault) ==
    IF fault \/ medicine_id \notin DOMAIN products
    THEN [raised |-> TRUE, value |-> NULL]
    ELSE [raised |-> FALSE, value |-> Some(AfterScope(Loaded(medicine_id)))]

\* get_medicine_by_id(medicine_id): `fault` is a data-access failure of the
\* query, which db_session re-raises.  The entity (or None) is returned
\* from inside the scope, so the scope's commit and close act on it.
GetMedicineById(medicine_id, fault) ==
    IF fault THEN [raised |-> TRUE, value |-> NULL]
    ELSE IF medicine_id \in DOMAIN products
         THEN [raised |-> FALSE, value |-> Some(AfterScope(Loaded(medicine_id)))]
         ELSE [raised |-> FALSE, value |-> NULL]

\* session.query(Inventory).filter(Inventory.product_id == medicine_id).all()
InventoryOfProduct(medicine_id) ==
    {inv \in DOMAIN inventory : inventory[inv].product_id = medicine_id}

\* `inv.current_stock for inv in inventory_list if inv.current_stock`
StockOrZero(inv) ==
    IF IsNull(inventory[inv].current_stock) THEN 0 ELSE Val(inventory[inv].current_stock)

RECURSIVE SumStock(_)
SumStock(S) ==
    IF S = {} THEN 0
    ELSE LET inv == CHOOSE x \in S : TRUE IN StockOrZero(inv) + SumStock(S \ {inv})

\* The body both callers share after the lookup: the inventory query in a
\* second scope, then product.to_dict() outside of it.
StockOfLoaded(entity, medicine_id, fault2) ==
    IF fault2 THEN "raised"
    ELSE IF ReadRaises(entity) THEN "raised"
    ELSE "ok"

\* round(x, 2) of the quotient num / den (den > 0, num >= 0), in hundredths:
\* the nearest hundredth, a tie going to the even one.
Round2(num, den) ==
    LET q == (num * 100) \div den
        r == (num * 100) % den
    IN  IF 2 * r < den THEN q
        ELSE IF 2 * r > den THEN q + 1
        ELSE IF q % 2 = 0 THEN q ELSE q + 1

\* An integer as a number of hundredths.
Hundredths(n) == n * 100

\* `inv.avg_monthly_consumption for inv in inventory_list
\*  if inv.avg_monthly_consumption`: NULL and 0 are left out of the sum.
ConsumptionOrZero(inv) ==
    IF IsNull(inventory[inv].avg_monthly_consumption) THEN 0
    ELSE Val(inventory[inv].avg_monthly_consumption)

RECURSIVE SumConsumption(_)
SumConsumption(S) ==
    IF S = {} THEN 0
    ELSE LET inv == CHOOSE x \in S : TRUE IN ConsumptionOrZero(inv) + SumConsumption(S \ {inv})

\* avg_consumption = sum(...) / len(inventory_list) if inventory_list else 0,
\* kept as the fraction num / den.
AvgConsumption(S) ==
    IF S = {} THEN [num |-> 0, den |-> 1]
    ELSE [num |-> SumConsumption(S), den |-> Cardinality(S)]

\* months_of_supply = round(total_stock / avg_consumption, 2)
\*                    if avg_consumption > 0 else 0, in hundredths.
MonthsOfSupply(total_stock, avg) ==
    IF avg.num > 0 THEN Round2(total_stock * avg.den, avg.num) ELSE 0

\* What the second scope of get_medicine_stock computes (lines 158-165).
SupplyMetrics(medicine_id) ==
    LET rows == InventoryOfProduct(medicine_id)
        avg == AvgConsumption(rows)
    IN  [total_stock |-> SumStock(rows),
         avg_consumption |-> avg,
         months_of_supply |-> MonthsOfSupply(SumStock(rows), avg)]

\* get_medicine_stock(medicine_id): every exception is caught and turned
\* into a "Database error" result.  `scope` holds what the second scope
\* had computed when the handler came to product.to_dict();
\* avg_monthly_consumption is round(avg_consumption, 2), in hundredths.
GetMedicineStockResult(medicine_id, fault, fault2) ==
    LET got == GetMedicineById(medicine_id, fault)
    IN  IF got.raised THEN [outcome |-> "database_error", scope |-> NULL]
        ELSE IF IsNull(got.value) THEN [outcome |-> "not_found", scope |-> NULL]
        ELSE IF fault2 THEN [outcome |-> "database_error", scope |-> NULL]
        ELSE IF StockOfLoaded(Val(got.value), medicine_id, fault2) = "raised"
             THEN [outcome |-> "database_error",
                   scope |-> Some(SupplyMetrics(medicine_id))]
             ELSE LET m == SupplyMetrics(medicine_id)
                  IN  [outcome |-> "ok", scope |-> Some(m),
                       product_id |-> Val(got.value).product_id,
                       total_stock |-> m.total_stock,
                       avg_monthly_consumption |->
                           Round2(m.avg_consumption.num, m.avg_consumption.den),
                       months_of_supply |-> m.months_of_supply,
                       inventory_locations |-> Cardinality(InventoryOfProduct(medicine_id))]

GetMedicineStock(medicine_id, fault, fault2) ==
    /\ ret' = [op |-> "get_medicine_stock", medicine_id |-> medicine_id,
               fault |-> fault, fault2 |-> fault2,
               result |-> GetMedicineStockResult(medicine_id, fault, fault2)]
    /\ UNCHANGED <<store, max_search_results, scopes>>

GetById(medicine_id, fault) ==
    /\ ret' = [op |-> "get_medicine_by_id", medicine_id |-> medicine_id,
               fault |-> fault, result |-> GetMedicineById(medicine_id, fault)]
    /\ UNCHANGED <<store, max_search_results, scopes>>

\* int(id) on the characters of the model: an optional minus sign, then digits.
Digits == {"1", "2"}

IsIntLiteral(id) ==
    /\ Len(id) >= 1
    /\ \A i \in DOMAIN id : id[i] \in Digits \/ (i = 1 /\ id[i] = "-" /\ Len(id) >= 2)

DigitValue(c) == IF c = "1" THEN 1 ELSE 2

RECURSIVE NatValue(_)
NatValue(ds) ==
    IF ds = <<>> THEN 0
    ELSE 10 * NatValue(SubSeq(ds, 1, Len(ds) - 1)) + DigitValue(ds[Len(ds)])

IntValue(id) == IF id[1] = "-" THEN 0 - NatValue(Tail(id)) ELSE NatValue(id)

\* get_product_resource(id): only the ValueError of int(id) is caught.
GetProductResourceResult(id, fault, fault2) ==
    IF ~IsIntLiteral(id) THEN [outcome |-> "invalid_id", sessions |-> 0]
    ELSE LET got == GetMedicineById(IntValue(id), fault)
         IN  IF got.raised THEN [outcome |-> "raised", sessions |-> 1]
             ELSE IF IsNull(got.value) THEN [outcome |-> "not_found", sessions |-> 1]
             ELSE IF StockOfLoaded(Val(got.value), IntValue(id), fault2) = "raised"
                  THEN [outcome |-> "raised", sessions |-> 2]
                  ELSE [outcome |-> "ok", sessions |-> 2,
                        product_id |-> Val(got.value).product_id,
                        inventories |-> Cardinality(InventoryOfProduct(IntValue(id)))]

GetProductResource(id, fault, fault2) ==
    /\ ret' = [op |-> "get_product_resource", id |-> id,
               fault |-> fault, fault2 |-> fault2,
               result |-> GetProductResourceResult(id, fault, fault2)]
    /\ UNCHANGED <<store, max_search_results, scopes>>

\* get_medicine_by_id(medicine_id) with a str argument: the parameter has
\* no annotation and no check, the value goes to the store, which takes
\* a literal of an integer and rejects anything else (DataError), and
\* db_session re-raises.
GetMedicineByIdOfText(medicine_id, fault) ==
    IF IsIntLiteral(medicine_id) THEN GetMedicineById(IntValue(medicine_id), fault)
    ELSE [raised |-> TRUE, value |-> NULL, error |-> "DataError"]

GetByIdOfText(medicine_id, fault) ==
    /\ ret' = [op |-> "get_medicine_by_id_text", medicine_id |-> medicine_id,
               fault |-> fault, result |-> GetMedicineByIdOfText(medicine_id, fault)]
    /\ UNCHANGED <<store, max_search_results, scopes>>

\* get_medicine_stock(medicine_id) with a str argument: the handler passes
\* it to get_medicine_by_id unchecked and turns what is raised into a
\* "Database error" result.
GetMedicineStockOfTextResult(medicine_id, fault, fault2) ==
    IF IsIntLiteral(medicine_id)
    THEN GetMedicineStockResult(IntValue(medicine_id), fault, fault2)
    ELSE [outcome |-> "database_error", scope |-> NULL]

GetMedicineStockOfText(medicine_id, fault, fault2) ==
    /\ ret' = [op |-> "get_medicine_stock_text", medicine_id |-> medicine_id,
               fault |-> fault, fault2 |-> fault2,
               result |-> GetMedicineStockOfTextResult(medicine_id, fault, fault2)]
    /\ UNCHANGED <<store, max_search_results, scopes>>

\* resources.py: search_medicines_by_name(name, limit=10)
STOCK_RESOURCE_LIMIT == 10

\* `product.product_id` where product is one of the dictionaries that
\* search_medicines_by_name returns: a dict has keys and no such
\* attribute, so the read raises AttributeError.
DictAttributeRaises(product) == TRUE

\* get_product_stock_resource(name): nothing is caught.  The first matched
\* product is read inside the first db_session scope of the loop.
GetProductStockResourceResults(name, fault) ==
    IF fault THEN {[outcome |-> "raised", sessions |-> 1]}
    ELSE {IF rows = <<>> THEN [outcome |-> "not_found", sessions |-> 1]
          ELSE IF DictAttributeRaises(rows[1]) THEN [outcome |-> "raised", sessions |-> 2]
          ELSE [outcome |-> "ok", sessions |-> 1 + Len(rows), count |-> Len(rows)] :
             rows \in SearchMedicinesByNameResults(name, STOCK_RESOURCE_LIMIT)}

GetProductStockResource(name, fault) ==
    /\ \E result \in GetProductStockResourceResults(name, fault) :
          ret' = [op |-> "get_product_stock_resource", name |-> name,
                  fault |-> fault, result |-> result]
    /\ UNCHANGED <<store, max_search_results, scopes>>

---------------------------------------------------------------------------
(* Inputs *)

CapValues == (1..MaxCap) \cup {MAX_SEARCH_RESULTS_DEFAULT}

Limits == 0..MaxLimit

Queries == StrUpTo(MaxQueryLen)

StoredNames == StoredStrUpTo(MaxNameLen)

ProductTables == UNION {[1..n -> [name : StoredNames]] : n \in 0..MaxProducts}

NoCall == [op |-> "none"]

\* No Session object exists and no call runs step by step.
NoSessions == <<>>

NoCalls == <<>>

\* The dispatch layer makes one call at a time: it calls when no result is
\* pending, and takes the result before it calls again.
Idle == ret = NoCall

Return ==
    /\ ret # NoCall
    /\ ret' = NoCall
    /\ UNCHANGED <<store, max_search_results, scopes>>

\* categoria: None or a string
CategoryArgs == {NULL} \cup {Some(q) : q \in Queries}

\* The products the location and availability stores share; every store
\* below varies some columns of the other tables.
SeedProducts == <<[name |-> <<"a">>], [name |-> <<"b">>]>>

LocNames == StoredStrUpTo(MaxLocNameLen)

StoredCategories == {NULL, Some(<<"a">>), Some(<<"b">>)}

\* Two regions with names of their own.
LocationRegionTables == [1..2 -> [name : LocNames]]

\* Two centers, each in region 1, in region 2 or in none, each with a
\* category or none.
LocationCenterTables ==
    [1..2 -> [region_id : {NULL, Some(1), Some(2)}, category : StoredCategories]]

\* Product 1 is stocked at both centers, product 2 at center 1.
LocationInventory ==
    <<[center_id |-> 1, product_id |-> 1, current_stock |-> Some(1)],
      [center_id |-> 2, product_id |-> 1, current_stock |-> Some(1)],
      [center_id |-> 1, product_id |-> 2, current_stock |-> Some(1)]>>

StockValues == {0, 3, 5, 50}

Stocks == {NULL} \cup {Some(v) : v \in StockValues}

MinStocks == {0, DEFAULT_MIN_STOCK, 5}

\* One inventory row per center, centers 1..MaxAvailRows: every row holds
\* product 1 but the last, which holds product 1 or 2; stocks are free.
AvailabilityInventoryTables ==
    {[i \in 1..MaxAvailRows |->
        [center_id |-> i,
         product_id |-> IF i = MaxAvailRows THEN lastProduct ELSE 1,
         current_stock |-> st[i]]] :
        st \in [1..MaxAvailRows -> Stocks], lastProduct \in {1, 2}}

\* Center 1 is in region 1 or in none, the others are in region 1.
AvailabilityCenterTables ==
    {[i \in 1..MaxAvailRows |->
        [region_id |-> IF i = 1 THEN r ELSE Some(1), category |-> NULL]] :
        r \in {NULL, Some(1)}}

\* Ids passed as integers: every stored id, the ids around them, and the
\* id of the specification's scenario.
MedicineIds == (0..(MaxProducts + 1)) \cup {999999}

IdChars == Digits \cup {"x", "-"}

IdStrings == UNION {[1..k -> IdChars] : k \in 0..MaxIdLen}

\* Products 1..n, named alternately.
NamedProducts(n) == [i \in 1..n |-> [name |-> IF i % 2 = 1 THEN <<"a">> ELSE <<"b">>]]

\* Up to MaxByIdRows inventory rows at center 1, each of a stored product.
ByIdInventoryTables(n) ==
    UNION {[1..m -> [center_id : {1}, product_id : 1..n, current_stock : {Some(5)},
                        avg_monthly_consumption : {Some(20)}]] :
              m \in 0..MaxByIdRows}

---------------------------------------------------------------------------
(* SpecName: search_medicines_by_name over every products table *)

InitName ==
    /\ products \in ProductTables
    /\ regions = EmptyTable
    /\ centers = EmptyTable
    /\ inventory = EmptyTable
    /\ max_search_results \in CapValues
    /\ ret = NoCall
    /\ sessions = NoSessions
    /\ calls = NoCalls

\* A caller passes a search string of its own, or the name of a stored product.
NameInputs == Queries \cup {products[id].name : id \in DOMAIN products}

SearchByNameExplicit ==
    /\ Idle
    /\ \E name \in NameInputs, limit \in Limits : SearchByName(name, limit)

\* limit=MAX_SEARCH_RESULTS, the default of the parameter
SearchByNameDefault ==
    /\ Idle
    /\ \E name \in NameInputs : SearchByName(name, max_search_results)

NextName == SearchByNameExplicit \/ SearchByNameDefault \/ Return

SpecName == InitName /\ [][NextName]_vars

---------------------------------------------------------------------------
(* What the specification asks of a name search *)

\* t occurs in s as a literal substring, compared case-insensitively.
Contains(s, t) ==
    \E k \in 0..(Len(s) - Len(t)) : \A i \in 1..Len(t) : Lower(s[k + i]) = Lower(t[i])

\* Word characters of the trigram metric: letters and digits.
IsAlnum(c) == c \in StoredChars

LowerStr(s) == [i \in DOMAIN s |-> Lower(s[i])]

\* The maximal runs of word characters of s.
Words(s) ==
    {SubSeq(s, i, j) : <<i, j>> \in
        {w \in (DOMAIN s) \X (DOMAIN s) :
            /\ w[1] <= w[2]
            /\ \A k \in w[1]..w[2] : IsAlnum(s[k])
            /\ (w[1] = 1 \/ ~IsAlnum(s[w[1] - 1]))
            /\ (w[2] = Len(s) \/ ~IsAlnum(s[w[2] + 1]))}}

\* The trigrams of a word padded with two blanks before and one after.
WordTrigrams(w) ==
    LET padded == <<" ", " ">> \o w \o <<" ">>
    IN  {SubSeq(padded, i, i + 2) : i \in 1..(Len(padded) - 2)}

Trigrams(s) == UNION {WordTrigrams(w) : w \in Words(LowerStr(s))}

\* similarity(s, t) = SimNum / SimDen, and 0 when neither has a trigram.
SimNum(s, t) == Cardinality(Trigrams(s) \cap Trigrams(t))

SimDen(s, t) == Cardinality(Trigrams(s) \cup Trigrams(t))

\* SEARCH_SIMILARITY_THRESHOLD = ThresholdNum / ThresholdDen (default "0.3")
ThresholdNum == 3

ThresholdDen == 10

\* similarity(s, t) > threshold
AboveThreshold(s, t) == SimNum(s, t) * ThresholdDen > ThresholdNum * SimDen(s, t)

\* similarity(s1, q) > similarity(s2, q), by cross multiplication
ScoreGreater(s1, s2, q) ==
    IF SimDen(s2, q) = 0 THEN SimDen(s1, q) > 0 /\ SimNum(s1, q) > 0
    ELSE IF SimDen(s1, q) = 0 THEN FALSE
    ELSE SimNum(s1, q) * SimDen(s2, q) > SimNum(s2, q) * SimDen(s1, q)

ReturnedIds == {ret.rows[i].product_id : i \in DOMAIN ret.rows}

---------------------------------------------------------------------------
(* Claims about search_medicines_by_name, under SpecName *)

\* C1: search_by_name called with the empty string returns an empty
\* sequence, whatever the store holds.
C1_EmptyNameReturnsNothing ==
    (ret.op = "search_by_name" /\ ret.name = <<>>) => ret.rows = <<>>

\* C2: for every stored product P, search_by_name(P.name) with the default
\* result cap returns a sequence that includes P.
C2_SelfSearchIncludesProduct ==
    \A id \in DOMAIN products :
        (/\ ret.op = "search_by_name"
         /\ ret.name = products[id].name
         /\ ret.limit = max_search_results) => id \in ReturnedIds

\* C3: search_by_name returns only products whose name contains the search
\* string as a literal case-insensitive substring, and all of them when at
\* most `limit` products qualify.
C3_LiteralSubstringMatch ==
    ret.op = "search_by_name" =>
        LET qualifying == {id \in DOMAIN products : Contains(products[id].name, ret.name)}
        IN  /\ ReturnedIds \subseteq qualifying
            /\ Cardinality(qualifying) <= ret.limit => qualifying \subseteq ReturnedIds

\* C4: under the trigram policy every returned product scores strictly
\* above the configured threshold, and the rows are ordered by score
\* descending with ties broken by lowest product id.
C4_TrigramThresholdAndRanking ==
    ret.op = "search_by_name" =>
        /\ \A i \in DOMAIN ret.rows : AboveThreshold(ret.rows[i].name, ret.name)
        /\ \A i, j \in DOMAIN ret.rows :
              i < j =>
                 \/ ScoreGreater(ret.rows[i].name, ret.rows[j].name, ret.name)
                 \/ /\ ~ScoreGreater(ret.rows[j].name, ret.rows[i].name, ret.name)
                    /\ ret.rows[i].product_id < ret.rows[j].product_id

---------------------------------------------------------------------------
(* SpecQuery: the three list operations over stores whose region name,   *)
(* center regions and center categories vary                             *)

InitQuery ==
    /\ products = SeedProducts
    /\ regions \in LocationRegionTables
    /\ centers \in LocationCenterTables
    /\ inventory = LocationInventory
    /\ max_search_results \in CapValues
    /\ ret = NoCall
    /\ sessions = NoSessions
    /\ calls = NoCalls

QueryByName ==
    /\ Idle
    /\ \E name \in Queries, limit \in Limits \cup {max_search_results} : SearchByName(name, limit)

QueryByLocation ==
    /\ Idle
    /\ \E diresa \in Queries, categoria \in CategoryArgs, limit \in Limits \cup {max_search_results} :
          SearchByLocation(diresa, categoria, limit)

QueryAvailable ==
    /\ Idle
    /\ \E name \in Queries : GetAvailableLocations(name, DEFAULT_MIN_STOCK)

NextQuery == QueryByName \/ QueryByLocation \/ QueryAvailable \/ Return

SpecQuery == InitQuery /\ [][NextQuery]_vars

---------------------------------------------------------------------------
(* SpecAvail: get_available_medicine_locations over stores whose stocks   *)
(* vary                                                                   *)

InitAvail ==
    /\ products = SeedProducts
    /\ regions = <<[name |-> <<"a">>]>>
    /\ centers \in AvailabilityCenterTables
    /\ inventory \in AvailabilityInventoryTables
    /\ max_search_results = MAX_SEARCH_RESULTS_DEFAULT
    /\ ret = NoCall
    /\ sessions = NoSessions
    /\ calls = NoCalls

AvailableLocations ==
    /\ Idle
    /\ \E name \in Queries, min_stock \in MinStocks : GetAvailableLocations(name, min_stock)

NextAvail == AvailableLocations \/ Return

SpecAvail == InitAvail /\ [][NextAvail]_vars

---------------------------------------------------------------------------
(* Claims about the list operations, under SpecQuery and SpecAvail *)

\* C5: every list operation returns at most `limit` records: the limit
\* argument for search_by_name and search_by_location, the configured cap
\* for get_available_locations, which takes no limit.
C5_ResultsBoundedByCap ==
    /\ ret.op \in {"search_by_name", "search_by_location"} => Len(ret.rows) <= ret.limit
    /\ ret.op = "get_available_locations" => Len(ret.rows) <= max_search_results

ReturnedInventoryIds == {ret.rows[i].inventory_id : i \in DOMAIN ret.rows}

NoRowTwice == \A i, j \in DOMAIN ret.rows : i # j => ret.rows[i].inventory_id # ret.rows[j].inventory_id

\* C6: search_by_location returns one record per (product, inventory) pair,
\* only pairs held by a center whose region name contains region_name and,
\* when a category is given, whose category contains it (both compared
\* case-insensitively), and all of them when at most `limit` pairs qualify.
C6_LocationFilter ==
    ret.op = "search_by_location" =>
        LET qualifying ==
                {inv \in JoinedRows :
                    /\ Contains(RegionOf(inv).name, ret.diresa)
                    /\ Truthy(ret.categoria) =>
                          /\ ~IsNull(CenterOf(inv).category)
                          /\ Contains(Val(CenterOf(inv).category), Val(ret.categoria))}
        IN  /\ NoRowTwice
            /\ \A i \in DOMAIN ret.rows :
                  ret.rows[i].product_id = inventory[ret.rows[i].inventory_id].product_id
            /\ ReturnedInventoryIds \subseteq qualifying
            /\ Cardinality(qualifying) <= ret.limit => qualifying \subseteq ReturnedInventoryIds

\* C7: search_by_location is deterministic: the rows are in ascending
\* product id order, and every invocation with the same arguments on the
\* same store returns this same sequence.
C7_LocationDeterministic ==
    ret.op = "search_by_location" =>
        /\ \A i, j \in DOMAIN ret.rows : i < j => ret.rows[i].product_id <= ret.rows[j].product_id
        /\ \A other \in SearchMedicinesByLocationResults(ret.diresa, ret.categoria, ret.limit) :
              other = ret.rows

\* C9: get_available_locations returns exactly the joined inventory rows
\* whose product name contains product_name case-insensitively and whose
\* stock is at least min_stock, one record per row; rows with a lower or a
\* null stock never appear.
C9_AvailableExactRows ==
    ret.op = "get_available_locations" =>
        /\ NoRowTwice
        /\ ReturnedInventoryIds =
              {inv \in JoinedRows :
                  /\ Contains(ProductOf(inv).name, ret.medicine_name)
                  /\ ~IsNull(inventory[inv].current_stock)
                  /\ Val(inventory[inv].current_stock) >= ret.min_stock}

\* C10: the rows of get_available_locations are ordered by stock
\* descending, and rows of equal stock by ascending center id.
C10_AvailableOrder ==
    ret.op = "get_available_locations" =>
        \A i, j \in DOMAIN ret.rows :
            i < j =>
               \/ ret.rows[i].stock > ret.rows[j].stock
               \/ /\ ret.rows[i].stock = ret.rows[j].stock
                  /\ ret.rows[i].center_id < ret.rows[j].center_id

---------------------------------------------------------------------------
(* SpecById: get_medicine_by_id, get_medicine_stock and                   *)
(* get_product_resource over stores of 0..MaxProducts products            *)

InitById ==
    /\ \E n \in 0..MaxProducts :
          /\ products = NamedProducts(n)
          /\ inventory \in ByIdInventoryTables(n)
    /\ regions = <<[name |-> <<"a">>]>>
    /\ centers = <<[region_id |-> Some(1), category |-> NULL]>>
    /\ max_search_results = MAX_SEARCH_RESULTS_DEFAULT
    /\ ret = NoCall
    /\ sessions = NoSessions
    /\ calls = NoCalls

LookupById ==
    /\ Idle
    /\ \E id \in MedicineIds, fault \in BOOLEAN : GetById(id, fault)

MedicineStock ==
    /\ Idle
    /\ \E id \in MedicineIds, fault, fault2 \in BOOLEAN : GetMedicineStock(id, fault, fault2)

ProductResource ==
    /\ Idle
    /\ \E id \in IdStrings, fault, fault2 \in BOOLEAN : GetProductResource(id, fault, fault2)

NextById == LookupById \/ MedicineStock \/ ProductResource \/ Return

SpecById == InitById /\ [][NextById]_vars

---------------------------------------------------------------------------
(* Claims about the point lookup, under SpecById *)

\* C8: for an id that matches no product (an empty store included) and
\* with the store answering, get_medicine_by_id raises nothing and returns
\* None, get_medicine_stock returns its "not found" result and
\* get_product_resource returns its "not found" result.
C8_AbsentIdIsNotFound ==
    /\ (/\ ret.op = "get_medicine_by_id"
        /\ ~ret.fault
        /\ ret.medicine_id \notin DOMAIN products)
           => (~ret.result.raised /\ IsNull(ret.result.value))
    /\ (/\ ret.op = "get_medicine_stock"
        /\ ~ret.fault
        /\ ret.medicine_id \notin DOMAIN products)
           => ret.result.outcome = "not_found"
    /\ (/\ ret.op = "get_product_resource"
        /\ ~ret.fault
        /\ IsIntLiteral(ret.id)
        /\ IntValue(ret.id) \notin DOMAIN products)
           => ret.result.outcome = "not_found"

\* get_medicine_stock(999999) has answered "not found" on a store that
\* holds products.
C8_Witness ==
    /\ ret.op = "get_medicine_stock"
    /\ products # <<>>
    /\ ret.medicine_id = 999999
    /\ ~ret.fault
    /\ ret.result.outcome = "not_found"

---------------------------------------------------------------------------
(* app/db/queries.py: the aggregations *)

\* The four indicator values the aggregations count.
Sobrestock == <<"Sobrestock">>

Substock == <<"Substock">>

Normostock == <<"Normostock">>

Desabastecido == <<"Desabastecido">>

\* The region filter with a NULL region_id taken to equal every region
RegionRowsOrNoRegion(region_id) ==
    {inv \in DOMAIN inventory :
        /\ inventory[inv].center_id \in DOMAIN centers
        /\ (IsNull(CenterOf(inv).region_id) \/ Val(CenterOf(inv).region_id) = region_id)}

\* query(func.count(Inventory.inventory_id)).join(MedicalCenter, ...)
\*   .filter(MedicalCenter.region_id == region.region_id): the inventory
\* rows whose center lies in the region; a center with a NULL region_id
\* compares equal to no region.
RegionRows(region_id) ==
    {inv \in DOMAIN inventory :
        /\ inventory[inv].center_id \in DOMAIN centers
        /\ ~IsNull(CenterOf(inv).region_id)
        /\ Val(CenterOf(inv).region_id) = region_id}

\* .filter(Inventory.current_stock > 0): NULL > 0 is not true.
InStock(inv) ==
    /\ ~IsNull(inventory[inv].current_stock)
    /\ Val(inventory[inv].current_stock) > 0

\* .filter(Inventory.status_indicator == indicator): NULL equals nothing.
HasIndicator(inv, indicator) == inventory[inv].status_indicator = indicator

\* total_count with the row filter of available_count in place of none
RegionTotalCountInStock(region_id) ==
    Cardinality({inv \in RegionRows(region_id) : InStock(inv)})

RegionTotalCount(region_id) == Cardinality(RegionRows(region_id))

RegionAvailableCount(region_id) ==
    Cardinality({inv \in RegionRows(region_id) : InStock(inv)})

RegionIndicatorCount(region_id, indicator) ==
    Cardinality({inv \in RegionRows(region_id) : HasIndicator(inv, indicator)})

\* The dictionary appended for one region.
RegionEntry(region_id) ==
    [region |-> regions[region_id].name,
     total_medicines |-> RegionTotalCount(region_id),
     available_medicines |-> RegionAvailableCount(region_id),
     overstock |-> RegionIndicatorCount(region_id, Sobrestock),
     understock |-> RegionIndicatorCount(region_id, Substock),
     normalstock |-> RegionIndicatorCount(region_id, Normostock),
     outofstock |-> RegionIndicatorCount(region_id, Desabastecido)]

\* session.query(Region).all() has no order_by: the regions come in any
\* order, one entry each.
GetStockStatusByRegionResults ==
    {[i \in DOMAIN q |-> RegionEntry(q[i])] : q \in Perms(DOMAIN regions)}

\* get_stock_status_by_region(): `fault` is a data-access failure of one
\* of its queries, which db_session re-raises.
GetStockStatusByRegion(fault) ==
    /\ \E value \in GetStockStatusByRegionResults :
          ret' = [op |-> "get_stock_status_by_region", fault |-> fault,
                  result |-> IF fault THEN [raised |-> TRUE, value |-> <<>>]
                                      ELSE [raised |-> FALSE, value |-> value]]
    /\ UNCHANGED <<store, max_search_results, scopes>>

\* round(available_count / total_count * 100, 2) with the guard taken away
AvailabilityRateUnguarded(available_count, total_count) ==
    IF total_count = 0 THEN [raised |-> TRUE, value |-> 0]
    ELSE [raised |-> FALSE, value |-> Round2(available_count * 100, total_count)]

\* round(available_count / total_count * 100, 2) if total_count > 0 else 0
AvailabilityRate(available_count, total_count) ==
    IF total_count > 0
    THEN [raised |-> FALSE, value |-> Round2(available_count * 100, total_count)]
    ELSE [raised |-> FALSE, value |-> 0]

InventoryCount == Cardinality(DOMAIN inventory)

InventoryAvailableCount == Cardinality({inv \in DOMAIN inventory : InStock(inv)})

InventoryIndicatorCount(indicator) ==
    Cardinality({inv \in DOMAIN inventory : HasIndicator(inv, indicator)})

\* query(func.count(func.distinct(Product.product_id))): the rows of the
\* product table, each id once; likewise for centers and regions.
UniqueProducts == Cardinality(DOMAIN products)

UniqueCenters == Cardinality(DOMAIN centers)

UniqueRegions == Cardinality(DOMAIN regions)

\* get_medicine_statistics(): `fault` is a data-access failure of one of
\* its queries; a ZeroDivisionError in the body leaves the scope the same
\* way.  availability_rate is in hundredths.
GetMedicineStatisticsResult(fault) ==
    LET rate == AvailabilityRate(InventoryAvailableCount, InventoryCount)
    IN  IF fault \/ rate.raised THEN [raised |-> TRUE, value |-> <<>>]
        ELSE [raised |-> FALSE,
              value |-> [total_inventory_records |-> InventoryCount,
                         available_inventory |-> InventoryAvailableCount,
                         overstock |-> InventoryIndicatorCount(Sobrestock),
                         understock |-> InventoryIndicatorCount(Substock),
                         normalstock |-> InventoryIndicatorCount(Normostock),
                         outofstock |-> InventoryIndicatorCount(Desabastecido),
                         unique_products |-> UniqueProducts,
                         unique_medical_centers |-> UniqueCenters,
                         unique_regions |-> UniqueRegions,
                         availability_rate |-> rate.value]]

GetMedicineStatistics(fault) ==
    /\ ret' = [op |-> "get_medicine_statistics", fault |-> fault,
               result |-> GetMedicineStatisticsResult(fault)]
    /\ UNCHANGED <<store, max_search_results, scopes>>

---------------------------------------------------------------------------
(* SpecStats: the two aggregations over stores of up to MaxStatRegions    *)
(* regions, two centers and up to MaxStatRows inventory rows              *)

\* The stock and the indicator of an inventory row: each counted indicator,
\* an indicator that is not counted, no indicator, with and without stock.
StatRowKinds ==
    {[current_stock |-> Some(5), status_indicator |-> Sobrestock],
     [current_stock |-> Some(5), status_indicator |-> Normostock],
     [current_stock |-> Some(5), status_indicator |-> Substock],
     [current_stock |-> Some(0), status_indicator |-> Desabastecido],
     [current_stock |-> Some(0), status_indicator |-> <<"Sin_Consumo">>],
     [current_stock |-> Some(5), status_indicator |-> NULL],
     [current_stock |-> NULL, status_indicator |-> NULL],
     [current_stock |-> NULL, status_indicator |-> Sobrestock]}

\* Regions 1..n, region i named by i letters.
NamedRegions(n) == [i \in 1..n |-> [name |-> [k \in 1..i |-> "a"]]]

\* Center 1 is in region 1 (in none when there is no region); center 2 is
\* in any region or in none.
StatCenterTables(n) ==
    {<<[region_id |-> IF n = 0 THEN NULL ELSE Some(1), category |-> NULL],
       [region_id |-> r, category |-> NULL]>> :
        r \in {NULL} \cup {Some(k) : k \in 1..n}}

\* m inventory rows, laid alternately at center 1 and 2 and holding
\* alternately product 1 and 2, row i of kind kind[i].
StatInventoryTable(m, kind) ==
    [i \in 1..m |-> [center_id |-> IF i % 2 = 1 THEN 1 ELSE 2,
                     product_id |-> IF i % 2 = 1 THEN 1 ELSE 2,
                     current_stock |-> kind[i].current_stock,
                     status_indicator |-> kind[i].status_indicator]]

InitStats ==
    /\ products = SeedProducts
    /\ \E n \in 0..MaxStatRegions :
          /\ regions = NamedRegions(n)
          /\ centers \in StatCenterTables(n)
    /\ \E m \in 0..MaxStatRows :
          \E kind \in [1..m -> StatRowKinds] :
             inventory = StatInventoryTable(m, kind)
    /\ max_search_results = MAX_SEARCH_RESULTS_DEFAULT
    /\ ret = NoCall
    /\ sessions = NoSessions
    /\ calls = NoCalls

StockStatusByRegion ==
    /\ Idle
    /\ \E fault \in BOOLEAN : GetStockStatusByRegion(fault)

MedicineStatistics ==
    /\ Idle
    /\ \E fault \in BOOLEAN : GetMedicineStatistics(fault)

NextStats == StockStatusByRegion \/ MedicineStatistics \/ Return

SpecStats == InitStats /\ [][NextStats]_vars

---------------------------------------------------------------------------
(* Claims about the aggregations, under SpecStats *)

FourIndicators == {Sobrestock, Substock, Normostock, Desabastecido}

\* The region an entry of the result describes.
RegionNamed(name) == CHOOSE r \in DOMAIN regions : regions[r].name = name

\* The inventory rows of the store that lie in a region.
StoreRowsOfRegion(r) ==
    {inv \in DOMAIN inventory : centers[inventory[inv].center_id].region_id = Some(r)}

StoreRowsInStock(S) ==
    {inv \in S : inventory[inv].current_stock # NULL /\ Val(inventory[inv].current_stock) > 0}

FourCounters(e) == e.overstock + e.understock + e.normalstock + e.outofstock

\* h (in hundredths) is num / den * 100 rounded to 2 decimals
IsPercentRounded(h, num, den) ==
    /\ 2 * (h * den - num * 10000) <= den
    /\ 2 * (num * 10000 - h * den) <= den

\* C11: in every region entry returned by get_stock_status_by_region,
\* overstock + understock + normalstock + outofstock <= total_medicines,
\* with equality exactly when no inventory row of the region carries an
\* indicator outside the four counted values (another value or NULL).
C11_CountersWithinTotal ==
    (ret.op = "get_stock_status_by_region" /\ ~ret.result.raised) =>
        \A i \in DOMAIN ret.result.value :
            LET e == ret.result.value[i]
                rows == StoreRowsOfRegion(RegionNamed(e.region))
            IN  /\ e.total_medicines = Cardinality(rows)
                /\ FourCounters(e) <= e.total_medicines
                /\ (FourCounters(e) = e.total_medicines) <=>
                      (\A inv \in rows : inventory[inv].status_indicator \in FourIndicators)

\* One result holds an entry whose counters fall short of its total and
\* an entry of a stocked region whose counters add up to it.
C11_Witness ==
    /\ ret.op = "get_stock_status_by_region"
    /\ ~ret.result.raised
    /\ \E i, j \in DOMAIN ret.result.value :
          /\ FourCounters(ret.result.value[i]) < ret.result.value[i].total_medicines
          /\ ret.result.value[j].total_medicines > 0
          /\ FourCounters(ret.result.value[j]) = ret.result.value[j].total_medicines

\* C12: every region entry returned by get_stock_status_by_region carries
\* availability_percentage, which is available / total * 100 rounded to 2
\* decimals, 0 for a region without inventory rows, and within 0..100.
C12_AvailabilityPercentage ==
    (ret.op = "get_stock_status_by_region" /\ ~ret.result.raised) =>
        \A i \in DOMAIN ret.result.value :
            LET e == ret.result.value[i]
                rows == StoreRowsOfRegion(RegionNamed(e.region))
            IN  /\ "availability_percentage" \in DOMAIN e
                /\ e.availability_percentage >= 0
                /\ e.availability_percentage <= Hundredths(100)
                /\ IF rows = {} THEN e.availability_percentage = 0
                   ELSE IsPercentRounded(e.availability_percentage,
                                         Cardinality(StoreRowsInStock(rows)),
                                         Cardinality(rows))

\* C13: get_medicine_statistics on a store without inventory rows returns
\* availability_rate = 0 and raises nothing; on every store the rate is
\* available / total * 100 rounded to 2 decimals and lies within 0..100.
C13_AvailabilityRate ==
    (ret.op = "get_medicine_statistics" /\ ~ret.fault) =>
        /\ ~ret.result.raised
        /\ ret.result.value.availability_rate >= 0
        /\ ret.result.value.availability_rate <= Hundredths(100)
        /\ IF inventory = <<>> THEN ret.result.value.availability_rate = 0
           ELSE IsPercentRounded(ret.result.value.availability_rate,
                                 Cardinality(StoreRowsInStock(DOMAIN inventory)),
                                 Len(inventory))

\* get_medicine_statistics has answered on a store without inventory rows.
C13_Witness ==
    /\ ret.op = "get_medicine_statistics"
    /\ ~ret.fault
    /\ inventory = <<>>
    /\ ~ret.result.raised
    /\ ret.result.value.availability_rate = 0

\* C14: unique_products, unique_medical_centers and unique_regions of
\* get_medicine_statistics count the products, centers and regions that at
\* least one inventory row references, and no others.
C14_UniqueCountsReferenced ==
    (ret.op = "get_medicine_statistics" /\ ~ret.result.raised) =>
        LET refProducts == {inventory[inv].product_id : inv \in DOMAIN inventory}
            refCenters == {inventory[inv].center_id : inv \in DOMAIN inventory}
            refRegions == {Val(centers[c].region_id) :
                              c \in {x \in refCenters : centers[x].region_id # NULL}}
        IN  /\ ret.result.value.unique_products = Cardinality(refProducts)
            /\ ret.result.value.unique_medical_centers = Cardinality(refCenters)
            /\ ret.result.value.unique_regions = Cardinality(refRegions)

---------------------------------------------------------------------------
(* SpecSupply: the by-id handlers and get_product_stock_resource over     *)
(* stores where product 1 has up to MaxSupplyRows inventory rows and      *)
(* product 2 has none                                                     *)

SupplyStocks == {NULL, Some(0), Some(50), Some(100)}

SupplyConsumptions == {NULL, Some(0), Some(20)}

SupplyInventoryTable(m, st, co) ==
    [i \in 1..m |-> [center_id |-> 1, product_id |-> 1,
                     current_stock |-> st[i],
                     avg_monthly_consumption |-> co[i]]]

InitSupply ==
    /\ products = SeedProducts
    /\ regions = <<[name |-> <<"a">>]>>
    /\ centers = <<[region_id |-> Some(1), category |-> NULL]>>
    /\ \E m \in 0..MaxSupplyRows :
          \E st \in [1..m -> SupplyStocks], co \in [1..m -> SupplyConsumptions] :
             inventory = SupplyInventoryTable(m, st, co)
    /\ max_search_results = MAX_SEARCH_RESULTS_DEFAULT
    /\ ret = NoCall
    /\ sessions = NoSessions
    /\ calls = NoCalls

LookupByIdOfText ==
    /\ Idle
    /\ \E id \in IdStrings, fault \in BOOLEAN : GetByIdOfText(id, fault)

MedicineStockOfText ==
    /\ Idle
    /\ \E id \in IdStrings, fault, fault2 \in BOOLEAN : GetMedicineStockOfText(id, fault, fault2)

ProductStockResource ==
    /\ Idle
    /\ \E name \in Queries, fault \in BOOLEAN : GetProductStockResource(name, fault)

NextSupply ==
    \/ MedicineStock
    \/ MedicineStockOfText
    \/ LookupByIdOfText
    \/ ProductResource
    \/ ProductStockResource
    \/ Return

SpecSupply == InitSupply /\ [][NextSupply]_vars

---------------------------------------------------------------------------
(* Claims about the supply metrics and the identifiers, under SpecSupply *)

\* The inventory rows of the store that hold a product.
StoreRowsOfProduct(id) == {inv \in DOMAIN inventory : inventory[inv].product_id = id}

\* h (in hundredths) is num / den rounded to 2 decimals
IsRounded2(h, num, den) ==
    /\ 2 * (h * den - num * 100) <= den
    /\ 2 * (num * 100 - h * den) <= den

\* C15: for a product without inventory rows and with the store
\* answering, get_medicine_stock returns total_stock = 0,
\* avg_monthly_consumption = 0 and months_of_supply = 0 and no error, and
\* get_product_stock_resource returns its result without raising.
C15_NoRowsZeroMetrics ==
    /\ (/\ ret.op = "get_medicine_stock"
        /\ ~ret.fault /\ ~ret.fault2
        /\ ret.medicine_id \in DOMAIN products
        /\ StoreRowsOfProduct(ret.medicine_id) = {})
           => /\ ret.result.outcome = "ok"
              /\ ret.result.total_stock = 0
              /\ ret.result.avg_monthly_consumption = 0
              /\ ret.result.months_of_supply = 0
    /\ (/\ ret.op = "get_product_stock_resource"
        /\ ~ret.fault
        /\ \E id \in DOMAIN products :
              products[id].name = ret.name /\ StoreRowsOfProduct(id) = {})
           => ret.result.outcome = "ok"

\* C16: for a product whose inventory rows are {stock 100, consumption 20}
\* and {stock 50, consumption 0}, get_medicine_stock returns
\* total_stock = 150, avg_monthly_consumption = 20 (the mean over the one
\* row that carries a consumption) and months_of_supply = 7.5.
C16_MeanOverRowsWithConsumption ==
    (/\ ret.op = "get_medicine_stock"
     /\ ~ret.fault /\ ~ret.fault2
     /\ ret.medicine_id \in DOMAIN products
     /\ \E i, j \in StoreRowsOfProduct(ret.medicine_id) :
           /\ StoreRowsOfProduct(ret.medicine_id) = {i, j}
           /\ inventory[i].current_stock = Some(100)
           /\ inventory[i].avg_monthly_consumption = Some(20)
           /\ inventory[j].current_stock = Some(50)
           /\ inventory[j].avg_monthly_consumption = Some(0))
        => /\ ret.result.outcome = "ok"
           /\ ret.result.total_stock = 150
           /\ ret.result.avg_monthly_consumption = Hundredths(20)
           /\ ret.result.months_of_supply = 750

\* C17: for every set of inventory rows of a product, get_medicine_stock
\* raises nothing and returns months_of_supply = total_stock /
\* avg_monthly_consumption rounded to 2 decimals when the average is above
\* 0, and 0 when the average is 0.
C17_MonthsOfSupply ==
    (/\ ret.op = "get_medicine_stock"
     /\ ~ret.fault /\ ~ret.fault2
     /\ ret.medicine_id \in DOMAIN products)
        => /\ ret.result.outcome = "ok"
           /\ LET avg == Val(ret.result.scope).avg_consumption
              IN  IF avg.num > 0
                  THEN IsRounded2(ret.result.months_of_supply,
                                  ret.result.total_stock * avg.den, avg.num)
                  ELSE ret.result.months_of_supply = 0

\* C19: an id that does not convert to an integer is answered with a
\* validation error and never with a store error: get_product_resource
\* returns "Invalid product ID" and opens no session, get_medicine_stock
\* returns no "Database error", get_medicine_by_id raises no store error.
C19_MalformedIdIsValidationError ==
    /\ (ret.op = "get_product_resource" /\ ~IsIntLiteral(ret.id))
           => (ret.result.outcome = "invalid_id" /\ ret.result.sessions = 0)
    /\ (ret.op = "get_medicine_stock_text" /\ ~IsIntLiteral(ret.medicine_id))
           => ret.result.outcome # "database_error"
    /\ (ret.op = "get_medicine_by_id_text" /\ ~IsIntLiteral(ret.medicine_id))
           => ret.result.error # "DataError"

---------------------------------------------------------------------------
(* app/mcp/tools.py: the handlers that wrap the queries *)

\* str.lower() on the letters of the search types.
LowerAscii(c) ==
    CASE c = "N" -> "n" [] c = "A" -> "a" [] c = "M" -> "m" [] c = "E" -> "e"
      [] c = "L" -> "l" [] c = "O" -> "o" [] c = "C" -> "c" [] c = "T" -> "t"
      [] c = "I" -> "i" [] OTHER -> c

LowerText(s) == [i \in DOMAIN s |-> LowerAscii(s[i])]

NameType == <<"n", "a", "m", "e">>

LocationType == <<"l", "o", "c", "a", "t", "i", "o", "n">>

\* The "error" value f"Database error: {str(e)}": its label and the
\* message of the exception that was caught.
DatabaseError(cause) == [label |-> "Database error", cause |-> cause]

\* The message of a data-access failure of the store.
StoreFailure == "store failure"

\* `except Exception` of search_medicines returning the empty result
\* without its "error" key
SearchMedicinesFailedMasked(query, search_type, cause) ==
    [query |-> query, search_type |-> search_type, count |-> 0, results |-> <<>>]

\* `except Exception` of search_medicines (lines 89-97)
SearchMedicinesFailed(query, search_type, cause) ==
    [error |-> DatabaseError(cause), query |-> query, search_type |-> search_type,
     count |-> 0, results |-> <<>>]

\* The result of lines 83-88.
SearchMedicinesFound(query, search_type, results) ==
    [query |-> query, search_type |-> search_type,
     count |-> Len(results), results |-> results]

\* search_medicines(query, search_type, location, category, limit): what it
\* returns and how many sessions it opened.  None has no lower(), and the
\* AttributeError is raised inside the try.  `fault` is a data-access
\* failure of the query.
SearchMedicinesOutcomes(query, search_type, location, category, limit, fault) ==
    IF IsNull(search_type)
    THEN {[result |-> SearchMedicinesFailed(query, search_type, "AttributeError"),
           sessions |-> 0]}
    ELSE IF LowerText(Val(search_type)) = NameType
    THEN IF fault
         THEN {[result |-> SearchMedicinesFailed(query, search_type, StoreFailure),
                sessions |-> 1]}
         ELSE {[result |-> SearchMedicinesFound(query, search_type, rows), sessions |-> 1] :
                  rows \in SearchMedicinesByNameResults(query, limit)}
    ELSE IF LowerText(Val(search_type)) = LocationType
    THEN IF ~Truthy(location)
         THEN {[result |-> [error |-> [label |-> "Location parameter is required for location search",
                                       cause |-> "none"]],
                sessions |-> 0]}
         ELSE IF fault
         THEN {[result |-> SearchMedicinesFailed(query, search_type, StoreFailure),
                sessions |-> 1]}
         ELSE {[result |-> SearchMedicinesFound(query, search_type, rows), sessions |-> 1] :
                  rows \in SearchMedicinesByLocationResults(Val(location), category, limit)}
    ELSE {[result |-> [error |-> [label |-> "Invalid search type", cause |-> "none"]],
           sessions |-> 0]}

SearchMedicines(query, search_type, location, category, limit, fault) ==
    /\ \E o \in SearchMedicinesOutcomes(query, search_type, location, category, limit, fault) :
          ret' = [op |-> "search_medicines", query |-> query, search_type |-> search_type,
                  location |-> location, category |-> category, limit |-> limit,
                  fault |-> fault, result |-> o.result, sessions |-> o.sessions]
    /\ UNCHANGED <<store, max_search_results, scopes>>

\* get_medicine_locations(medicine_name, min_stock)
GetMedicineLocationsResults(medicine_name, min_stock, fault) ==
    IF fault
    THEN {[error |-> DatabaseError(StoreFailure), medicine_name |-> medicine_name,
           min_stock |-> min_stock, count |-> 0, locations |-> <<>>]}
    ELSE {[medicine_name |-> medicine_name, min_stock |-> min_stock,
           count |-> Len(rows), locations |-> rows] :
             rows \in GetAvailableMedicineLocationsResults(medicine_name, min_stock)}

GetMedicineLocations(medicine_name, min_stock, fault) ==
    /\ \E result \in GetMedicineLocationsResults(medicine_name, min_stock, fault) :
          ret' = [op |-> "get_medicine_locations", fault |-> fault, result |-> result,
                  sessions |-> 1]
    /\ UNCHANGED <<store, max_search_results, scopes>>

\* get_regional_statistics()
GetRegionalStatisticsResults(fault) ==
    IF fault
    THEN {[error |-> DatabaseError(StoreFailure), count |-> 0, regions |-> <<>>]}
    ELSE {[count |-> Len(value), regions |-> value] : value \in GetStockStatusByRegionResults}

GetRegionalStatistics(fault) ==
    /\ \E result \in GetRegionalStatisticsResults(fault) :
          ret' = [op |-> "get_regional_statistics", fault |-> fault, result |-> result,
                  sessions |-> 1]
    /\ UNCHANGED <<store, max_search_results, scopes>>

\* get_medicine_status()
GetMedicineStatusResult(fault) ==
    IF GetMedicineStatisticsResult(fault).raised
    THEN [error |-> DatabaseError(StoreFailure)]
    ELSE GetMedicineStatisticsResult(fault).value

GetMedicineStatus(fault) ==
    /\ ret' = [op |-> "get_medicine_status", fault |-> fault,
               result |-> GetMedicineStatusResult(fault), sessions |-> 1]
    /\ UNCHANGED <<store, max_search_results, scopes>>

---------------------------------------------------------------------------
(* SpecTools: the handlers and the queries under them, over an empty      *)
(* inventory and over a stocked one, the store failing or answering       *)

SearchTypeArgs ==
    {NULL, Some(NameType), Some(<<"N", "A", "M", "E">>), Some(LocationType),
     Some(<<"L", "o", "c", "a", "t", "i", "o", "n">>), Some(<<"i", "d">>), Some(<<>>)}

\* location: None, the empty string or a string
LocationArgs == {NULL, Some(<<>>), Some(<<"a">>)}

ToolCategoryArgs == {NULL, Some(<<"a">>)}

\* Product 1 stocked at the center, product 2 out of stock.
ToolInventory ==
    <<[center_id |-> 1, product_id |-> 1, current_stock |-> Some(5),
       avg_monthly_consumption |-> Some(20), status_indicator |-> Normostock],
      [center_id |-> 1, product_id |-> 2, current_stock |-> Some(0),
       avg_monthly_consumption |-> NULL, status_indicator |-> Desabastecido]>>

InitTools ==
    /\ products = SeedProducts
    /\ regions = NamedRegions(1)
    /\ centers = <<[region_id |-> Some(1), category |-> Some(<<"a">>)]>>
    /\ inventory \in {EmptyTable, ToolInventory}
    /\ max_search_results \in CapValues
    /\ ret = NoCall
    /\ sessions = NoSessions
    /\ calls = NoCalls

ToolSearchMedicines ==
    /\ Idle
    /\ \E query \in Queries, search_type \in SearchTypeArgs, location \in LocationArgs,
          category \in ToolCategoryArgs, limit \in Limits \cup {max_search_results},
          fault \in BOOLEAN :
          SearchMedicines(query, search_type, location, category, limit, fault)

ToolMedicineLocations ==
    /\ Idle
    /\ \E medicine_name \in Queries, min_stock \in MinStocks, fault \in BOOLEAN :
          GetMedicineLocations(medicine_name, min_stock, fault)

ToolRegionalStatistics ==
    /\ Idle
    /\ \E fault \in BOOLEAN : GetRegionalStatistics(fault)

ToolMedicineStatus ==
    /\ Idle
    /\ \E fault \in BOOLEAN : GetMedicineStatus(fault)

NextTools ==
    \/ ToolSearchMedicines
    \/ ToolMedicineLocations
    \/ ToolRegionalStatistics
    \/ ToolMedicineStatus
    \/ MedicineStock
    \/ LookupById
    \/ ProductResource
    \/ StockStatusByRegion
    \/ MedicineStatistics
    \/ Return

SpecTools == InitTools /\ [][NextTools]_vars

---------------------------------------------------------------------------
(* Claims about failures and validation, under SpecTools *)

C20_MalformedSearchIsValidationError ==
    (/\ ret.op = "search_medicines"
     /\ \/ ret.search_type = NULL
        \/ LowerText(Val(ret.search_type)) \notin {NameType, LocationType}
        \/ /\ LowerText(Val(ret.search_type)) = LocationType
           /\ (ret.location = NULL \/ ret.location = Some(<<>>)))
        => /\ "error" \in DOMAIN ret.result
           /\ ret.result.error.label # "Database error"
           /\ ret.sessions = 0


\* ---------------------------------------------------------------------
\* The aggregations, statement by statement
\* ---------------------------------------------------------------------

\* Every session.query(...) of an aggregation is one statement sent to the
\* store.  A call in progress holds its position and its local variables:
\*   pc      "regions", "count", "return" or "raised";
\*   order   the regions loaded by the first statement, as [region_id, name];
\*   counts  the counts read so far for the region (or the table) at hand;
\*   results the list built so far.
NoAggregation == [pc |-> "idle"]

\* The k-th count statement of the loop body for one region.
RegionCountQuery(region_id, k) ==
    CASE k = 1 -> RegionTotalCount(region_id)
      [] k = 2 -> RegionAvailableCount(region_id)
      [] k = 3 -> RegionIndicatorCount(region_id, Sobrestock)
      [] k = 4 -> RegionIndicatorCount(region_id, Substock)
      [] k = 5 -> RegionIndicatorCount(region_id, Normostock)
      [] k = 6 -> RegionIndicatorCount(region_id, Desabastecido)

RegionQueries == 6

\* results.append({...}) from the six counts of one region
RegionEntryOf(name, counts) ==
    [region |-> name,
     total_medicines |-> counts[1],
     available_medicines |-> counts[2],
     overstock |-> counts[3],
     understock |-> counts[4],
     normalstock |-> counts[5],
     outofstock |-> counts[6]]

\* The k-th count statement of get_medicine_statistics.
GlobalCountQuery(k) ==
    CASE k = 1 -> InventoryCount
      [] k = 2 -> InventoryAvailableCount
      [] k = 3 -> InventoryIndicatorCount(Sobrestock)
      [] k = 4 -> InventoryIndicatorCount(Substock)
      [] k = 5 -> InventoryIndicatorCount(Normostock)
      [] k = 6 -> InventoryIndicatorCount(Desabastecido)
      [] k = 7 -> UniqueProducts
      [] k = 8 -> UniqueCenters
      [] k = 9 -> UniqueRegions

GlobalQueries == 9

\* The dictionary get_medicine_statistics returns from its nine counts.
StatisticsOf(counts) ==
    LET rate == AvailabilityRate(counts[2], counts[1])
    IN  IF rate.raised THEN [raised |-> TRUE, value |-> <<>>]
        ELSE [raised |-> FALSE,
              value |-> [total_inventory_records |-> counts[1],
                         available_inventory |-> counts[2],
                         overstock |-> counts[3],
                         understock |-> counts[4],
                         normalstock |-> counts[5],
                         outofstock |-> counts[6],
                         unique_products |-> counts[7],
                         unique_medical_centers |-> counts[8],
                         unique_regions |-> counts[9],
                         availability_rate |-> rate.value]]

\* What leaves get_stock_status_by_region, with the list built so far
\* handed back when a statement failed
StockStatusOutcomePartial(pc, results) == [raised |-> FALSE, value |-> results]

\* What leaves get_stock_status_by_region: the list after the loop, or
\* the exception of the failed statement, which db_session re-raises and
\* which takes the local list with it.
StockStatusOutcome(pc, results) ==
    IF pc = "raised" THEN [raised |-> TRUE, value |-> <<>>]
    ELSE [raised |-> FALSE, value |-> results]

\* get_regional_statistics() around one outcome of the query function.
RegionalStatisticsResponse(outcome) ==
    IF outcome.raised
    THEN [error |-> DatabaseError(StoreFailure), count |-> 0, regions |-> <<>>]
    ELSE [count |-> Len(outcome.value), regions |-> outcome.value]

\* get_regional_statistics() is called: db_session yields the session.
BeginStockStatus ==
    /\ Idle
    /\ calls = NoAggregation
    /\ calls' = [op |-> "get_regional_statistics", pc |-> "regions"]
    /\ UNCHANGED <<store, max_search_results, ret, sessions>>

\* regions = session.query(Region).all()
LoadRegions(fault) ==
    /\ "op" \in DOMAIN calls
    /\ calls.op = "get_regional_statistics"
    /\ calls.pc = "regions"
    /\ IF fault
       THEN calls' = [calls EXCEPT !.pc = "raised"] @@
                     [order |-> <<>>, counts |-> <<>>, results |-> <<>>]
       ELSE \E q \in Perms(DOMAIN regions) :
               calls' = [op |-> calls.op,
                         pc |-> IF Len(q) = 0 THEN "return" ELSE "count",
                         order |-> [i \in DOMAIN q |->
                                      [region_id |-> q[i], name |-> regions[q[i]].name]],
                         counts |-> <<>>,
                         results |-> <<>>]
    /\ UNCHANGED <<store, max_search_results, ret, sessions>>

\* One count statement of the loop body; the sixth one appends the entry
\* and moves to the next region.
CountRegion(fault) ==
    /\ "op" \in DOMAIN calls
    /\ calls.op = "get_regional_statistics"
    /\ calls.pc = "count"
    /\ LET region == calls.order[Len(calls.results) + 1]
           counts == Append(calls.counts,
                            RegionCountQuery(region.region_id, Len(calls.counts) + 1))
       IN  IF fault
           THEN calls' = [calls EXCEPT !.pc = "raised"]
           ELSE IF Len(counts) < RegionQueries
           THEN calls' = [calls EXCEPT !.counts = counts]
           ELSE calls' = [calls EXCEPT
                            !.counts = <<>>,
                            !.results = Append(calls.results,
                                               RegionEntryOf(region.name, counts)),
                            !.pc = IF Len(calls.results) + 1 = Len(calls.order)
                                   THEN "return" ELSE "count"]
    /\ UNCHANGED <<store, max_search_results, ret, sessions>>

\* The call leaves db_session and the tool builds its response.
EndStockStatus ==
    /\ "op" \in DOMAIN calls
    /\ calls.op = "get_regional_statistics"
    /\ calls.pc \in {"return", "raised"}
    /\ LET outcome == StockStatusOutcome(calls.pc, calls.results)
       IN  ret' = [op |-> "get_regional_statistics",
                   failed |-> calls.pc = "raised",
                   loaded |-> Len(calls.order),
                   processed |-> Len(calls.results),
                   outcome |-> outcome,
                   result |-> RegionalStatisticsResponse(outcome),
                   sessions |-> 1]
    /\ calls' = NoAggregation
    /\ UNCHANGED <<store, max_search_results, sessions>>

\* get_medicine_statistics() is called.
BeginStatistics ==
    /\ Idle
    /\ calls = NoAggregation
    /\ calls' = [op |-> "get_medicine_statistics", pc |-> "count", counts |-> <<>>]
    /\ UNCHANGED <<store, max_search_results, ret, sessions>>

\* One count statement of get_medicine_statistics.
CountGlobal(fault) ==
    /\ "op" \in DOMAIN calls
    /\ calls.op = "get_medicine_statistics"
    /\ calls.pc = "count"
    /\ LET counts == Append(calls.counts, GlobalCountQuery(Len(calls.counts) + 1))
       IN  IF fault
           THEN calls' = [calls EXCEPT !.pc = "raised"]
           ELSE calls' = [calls EXCEPT
                            !.counts = counts,
                            !.pc = IF Len(counts) = GlobalQueries
                                   THEN "return" ELSE "count"]
    /\ UNCHANGED <<store, max_search_results, ret, sessions>>

\* The dictionary is built and the call leaves db_session.
EndStatistics ==
    /\ "op" \in DOMAIN calls
    /\ calls.op = "get_medicine_statistics"
    /\ calls.pc \in {"return", "raised"}
    /\ ret' = [op |-> "get_medicine_statistics",
               failed |-> calls.pc = "raised",
               result |-> IF calls.pc = "raised" THEN [raised |-> TRUE, value |-> <<>>]
                          ELSE StatisticsOf(calls.counts)]
    /\ calls' = NoAggregation
    /\ UNCHANGED <<store, max_search_results, sessions>>

\* ---------------------------------------------------------------------
\* Specification: a failing statement inside an aggregation
\* ---------------------------------------------------------------------

MaxStepRows == 1

InitPropagation ==
    /\ products = SeedProducts
    /\ \E n \in 0..MaxStatRegions :
          /\ regions = NamedRegions(n)
          /\ centers \in StatCenterTables(n)
    /\ \E m \in 0..MaxStepRows :
          \E kind \in [1..m -> StatRowKinds] :
             inventory = StatInventoryTable(m, kind)
    /\ max_search_results = MAX_SEARCH_RESULTS_DEFAULT
    /\ ret = NoCall
    /\ sessions = NoSessions
    /\ calls = NoAggregation

NextPropagation ==
    \/ BeginStockStatus
    \/ \E fault \in BOOLEAN : LoadRegions(fault)
    \/ \E fault \in BOOLEAN : CountRegion(fault)
    \/ EndStockStatus
    \/ BeginStatistics
    \/ \E fault \in BOOLEAN : CountGlobal(fault)
    \/ EndStatistics
    \/ Return

SpecPropagation == InitPropagation /\ [][NextPropagation]_vars

\* C21: when a statement of get_stock_status_by_region fails, at the
\* region load or at any count of any region, the function raises and
\* hands back no list, and get_regional_statistics answers with an error,
\* count 0 and an empty region list: the regions processed before the
\* failure never reach the caller.
C21_FailedAggregationHasNoRegions ==
    (ret.op = "get_regional_statistics" /\ "failed" \in DOMAIN ret /\ ret.failed)
        => /\ ret.outcome.raised
           /\ ret.outcome.value = <<>>
           /\ "error" \in DOMAIN ret.result
           /\ ret.result.count = 0
           /\ ret.result.regions = <<>>

\* A count failed after the entry of one region had been appended.
C21_Witness ==
    /\ ret.op = "get_regional_statistics"
    /\ "failed" \in DOMAIN ret
    /\ ret.failed
    /\ ret.processed >= 1
    /\ ret.processed < ret.loaded
    /\ ret.result.regions = <<>>

\* ---------------------------------------------------------------------
\* db_session: the scope around every query
\* ---------------------------------------------------------------------

MaxCallers == 2

\* The threads that call into the engine.
Callers == 1..MaxCallers

\* Session() with one registry entry for everybody
SessionOfShared(caller) == 1

\* Session = scoped_session(session_factory); session = Session(): the
\* registry keeps one Session object per thread and hands the calling
\* thread its own.
SessionOf(caller) == caller

\* A Session object: the calls that hold it, and the objects it would
\* write at its next flush, as [inv, current_stock].
FreshSession == [users |-> {}, pending |-> {}]

NoScope == [pc |-> "idle"]

\* The operations that open a scope.
ScopeOperations ==
    {"search_medicines_by_name", "search_medicines_by_location", "get_medicine_by_id",
     "get_available_medicine_locations", "get_stock_status_by_region",
     "get_medicine_statistics"}

\* How control leaves the body of the with statement: off its end, by a
\* return statement inside it, by an Exception, or by an exception that
\* is not an Exception (KeyboardInterrupt, SystemExit).
BodyExits == {"completes", "returns", "raises", "interrupted"}

NoException == "none"

BodyException(exit) ==
    CASE exit = "raises" -> "Exception in body"
      [] exit = "interrupted" -> "BaseException in body"
      [] OTHER -> NoException

\* The statements of the operations are session.query(...) reads with a means to write
PendingAfterQueryDirty(op, pending) == pending \cup {[inv |-> 1, current_stock |-> Some(0)]}

\* The statements of the operations are session.query(...) reads:
\* nothing is added to the session, no loaded attribute is assigned and
\* nothing is deleted, so the session has nothing more to write.
PendingAfterQuery(op, pending) == pending

\* What a flush writes to the inventory table.
Flush(pending) ==
    [inv \in DOMAIN inventory |->
        IF \E w \in pending : w.inv = inv
        THEN [inventory[inv] EXCEPT
                !.current_stock = (CHOOSE w \in pending : w.inv = inv).current_stock]
        ELSE inventory[inv]]

\* try: yield session; session.commit() / except Exception / finally
\* with the Exception of the body going on to commit
PcAfterBodyCommitting(exit) ==
    CASE exit \in {"completes", "returns", "raises"} -> "commit"
      [] exit = "interrupted" -> "close"

\* try: yield session; session.commit() / except Exception / finally
PcAfterBody(exit) ==
    CASE exit \in {"completes", "returns"} -> "commit"
      [] exit = "raises" -> "rollback"
      [] exit = "interrupted" -> "close"

\* the except clause with no finally clause behind it
PcAfterRollbackLeaving == "done"

\* the except clause re-raises and the finally clause runs
PcAfterRollback == "close"

\* with: session = Session()
EnterScope(caller, op) ==
    /\ calls[caller] = NoScope
    /\ LET session == SessionOf(caller)
       IN  /\ calls' = [calls EXCEPT ![caller] =
                           [pc |-> "body", op |-> op, session |-> session,
                            ops |-> <<>>, exit |-> "none", exception |-> NoException,
                            propagated |-> NoException]]
           /\ sessions' = [sessions EXCEPT ![session].users = @ \cup {caller}]
    /\ UNCHANGED <<store, max_search_results, ret>>

\* The body of the with statement runs its queries and is left.
RunBody(caller, exit) ==
    /\ calls[caller].pc = "body"
    /\ LET call == calls[caller]
       IN  /\ calls' = [calls EXCEPT ![caller] =
                           [call EXCEPT !.pc = PcAfterBody(exit),
                                        !.ops = Append(@, "query"),
                                        !.exit = exit,
                                        !.exception = BodyException(exit)]]
           /\ sessions' = [sessions EXCEPT ![call.session].pending =
                                              PendingAfterQuery(call.op, @)]
    /\ UNCHANGED <<store, max_search_results, ret>>

\* session.commit(): flushes what is pending, or raises.
Commit(caller, fails) ==
    /\ calls[caller].pc = "commit"
    /\ LET call == calls[caller]
       IN  IF fails
           THEN /\ calls' = [calls EXCEPT ![caller] =
                                [call EXCEPT !.pc = "rollback",
                                             !.ops = Append(@, "commit"),
                                             !.exception = "Exception in commit"]]
                /\ UNCHANGED <<store, sessions>>
           ELSE /\ calls' = [calls EXCEPT ![caller] =
                                [call EXCEPT !.pc = "close",
                                             !.ops = Append(@, "commit")]]
                /\ inventory' = Flush(sessions[call.session].pending)
                /\ sessions' = [sessions EXCEPT ![call.session].pending = {}]
                /\ UNCHANGED <<products, regions, centers>>
    /\ UNCHANGED <<max_search_results, ret>>

\* except Exception: session.rollback(); raise
Rollback(caller) ==
    /\ calls[caller].pc = "rollback"
    /\ LET call == calls[caller]
       IN  /\ calls' = [calls EXCEPT ![caller] =
                           [call EXCEPT !.pc = PcAfterRollback,
                                        !.ops = Append(@, "rollback")]]
           /\ sessions' = [sessions EXCEPT ![call.session].pending = {}]
    /\ UNCHANGED <<store, max_search_results, ret>>

\* finally: session.close(); what was raised goes on to the caller.
Close(caller) ==
    /\ calls[caller].pc = "close"
    /\ LET call == calls[caller]
       IN  /\ calls' = [calls EXCEPT ![caller] =
                           [call EXCEPT !.pc = "done",
                                        !.ops = Append(@, "close"),
                                        !.propagated = call.exception]]
           /\ sessions' = [sessions EXCEPT ![call.session] =
                              [users |-> @.users \ {caller}, pending |-> {}]]
    /\ UNCHANGED <<store, max_search_results, ret>>

\* The caller of the scope goes on with the value or the exception.
LeaveScope(caller) ==
    /\ calls[caller].pc = "done"
    /\ calls' = [calls EXCEPT ![caller] = NoScope]
    /\ UNCHANGED <<store, max_search_results, ret, sessions>>

\* ---------------------------------------------------------------------
\* Specification: callers entering and leaving db_session scopes
\* ---------------------------------------------------------------------

InitScope ==
    /\ products = SeedProducts
    /\ regions = NamedRegions(1)
    /\ centers = <<[region_id |-> Some(1), category |-> NULL]>>
    /\ inventory = <<[center_id |-> 1, product_id |-> 1,
                      current_stock |-> Some(5), status_indicator |-> Normostock]>>
    /\ max_search_results = MAX_SEARCH_RESULTS_DEFAULT
    /\ ret = NoCall
    /\ sessions = [session \in Callers |-> FreshSession]
    /\ calls = [caller \in Callers |-> NoScope]

NextScope ==
    \/ \E caller \in Callers, op \in ScopeOperations : EnterScope(caller, op)
    \/ \E caller \in Callers, exit \in BodyExits : RunBody(caller, exit)
    \/ \E caller \in Callers, fails \in BOOLEAN : Commit(caller, fails)
    \/ \E caller \in Callers : Rollback(caller)
    \/ \E caller \in Callers : Close(caller)
    \/ \E caller \in Callers : LeaveScope(caller)

SpecScope == InitScope /\ [][NextScope]_vars

\* How many times a session operation occurs in the trace of a scope.
Occurrences(ops, name) == Cardinality({i \in DOMAIN ops : ops[i] = name})

\* The scopes that have been left.
LeftScopes == {caller \in DOMAIN calls : calls[caller].pc = "done"}

\* C22: a scope that has been left, however its body ended (off its end,
\* by a return from inside, by a raise, or with commit raising), has run
\* session.close() exactly once, as its last session operation; a scope
\* that is still running has not closed its session.
C22_ClosedOnceAndLast ==
    \A caller \in DOMAIN calls :
        LET call == calls[caller]
        IN  /\ call.pc = "done"
                => /\ Occurrences(call.ops, "close") = 1
                   /\ call.ops[Len(call.ops)] = "close"
            /\ call.pc \in {"body", "commit", "rollback", "close"}
                => Occurrences(call.ops, "close") = 0

\* A scope was left by a return inside it, another with its commit
\* raising: both ended with close.
C22_Witness ==
    /\ \E caller \in LeftScopes :
          /\ calls[caller].exit = "returns"
          /\ calls[caller].ops = <<"query", "commit", "close">>
    /\ \E caller \in LeftScopes :
          /\ calls[caller].exception = "Exception in commit"
          /\ calls[caller].ops = <<"query", "commit", "rollback", "close">>

\* The scopes that hold a session: entered and not yet closed.
ActiveScopes ==
    {caller \in DOMAIN calls : calls[caller].pc \in {"body", "commit", "rollback", "close"}}

\* C23: in every interleaving of the callers, two scopes that are active
\* at the same time hold different Session objects, and a Session object
\* has at most one user: the commit, rollback or close of one caller acts
\* on a session nobody else is using.
C23_OwnSessionPerCall ==
    /\ \A c1, c2 \in ActiveScopes : c1 # c2 => calls[c1].session # calls[c2].session
    /\ \A session \in DOMAIN sessions : Cardinality(sessions[session].users) <= 1
    /\ \A caller \in ActiveScopes : sessions[calls[caller].session].users = {caller}

\* Two callers are inside their scopes at once, one of them about to
\* commit while the other still runs its body.
C23_Witness ==
    \E c1, c2 \in ActiveScopes :
        /\ c1 # c2
        /\ calls[c1].pc = "commit"
        /\ calls[c2].pc = "body"

\* C24: no step of a query or aggregation call, whether it commits, rolls
\* back or is interrupted, changes the product, region, center or
\* inventory tables: the session has nothing to write at its commit.
C24_ReadOnly == [][store' = store]_vars

\* One call has committed and been left, another has failed and been
\* left, and the session of neither holds anything to write.
C24_Witness ==
    /\ \E caller \in LeftScopes :
          /\ calls[caller].op = "get_medicine_statistics"
          /\ calls[caller].ops = <<"query", "commit", "close">>
          /\ calls[caller].propagated = NoException
    /\ \E caller \in LeftScopes :
          /\ calls[caller].op = "search_medicines_by_name"
          /\ calls[caller].propagated # NoException
    /\ \A session \in DOMAIN sessions : sessions[session].pending = {}

---------------------------------------------------------------------------
(* The entity and the dictionaries handed across scopes *)

\* C26: for an id present in the store and a reachable store,
\* get_medicine_stock(id) and get_product_resource(id) return the
\* product's attributes with its inventory data and no error: the Product
\* loaded by get_medicine_by_id is still readable after its scope has
\* committed and closed and a second scope has been opened and closed.
C26_LoadedProductReadable ==
    /\ (/\ ret.op = "get_medicine_stock"
        /\ ~ret.fault /\ ~ret.fault2
        /\ ret.medicine_id \in DOMAIN products)
           => /\ ret.result.outcome = "ok"
              /\ ret.result.product_id = ret.medicine_id
    /\ (/\ ret.op = "get_product_resource"
        /\ ~ret.fault /\ ~ret.fault2
        /\ IsIntLiteral(ret.id)
        /\ IntValue(ret.id) \in DOMAIN products)
           => /\ ret.result.outcome = "ok"
              /\ ret.result.product_id = IntValue(ret.id)

\* The number of products whose name matches, as the name search finds them.
MatchedProducts(name) ==
    Cardinality({id \in DOMAIN products : ILike(products[id].name, SearchTerm(name))})

\* C27: when at least one product matches the name and the store is
\* reachable, get_product_stock_resource(name) does not raise and returns
\* a result whose count is the number of matched products, at most 10.
C27_StockResourceReturnsMatches ==
    (/\ ret.op = "get_product_stock_resource"
     /\ ~ret.fault
     /\ MatchedProducts(ret.name) >= 1)
        => /\ ret.result.outcome = "ok"
           /\ ret.result.count = Min(MatchedProducts(ret.name), STOCK_RESOURCE_LIMIT)

\* ---------------------------------------------------------------------
\* Specification: aggregations while the ingestion process writes
\* ---------------------------------------------------------------------

\* create_engine(DATABASE_URL) on PostgreSQL leaves the isolation level at
\* READ COMMITTED: every statement of a transaction reads the rows
\* committed when that statement starts, so a write committed by the
\* ingestion process between two count statements is seen by the second.

MaxIngestRows == 2

\* What the ingestion process writes in a row.
IngestKinds ==
    {[current_stock |-> Some(5), status_indicator |-> Sobrestock],
     [current_stock |-> Some(0), status_indicator |-> Desabastecido],
     [current_stock |-> NULL, status_indicator |-> NULL]}

IngestedRow(kind) ==
    [center_id |-> 1, product_id |-> 1,
     current_stock |-> kind.current_stock,
     status_indicator |-> kind.status_indicator]

\* The ingestion process commits a new inventory row.
IngestInsert ==
    /\ \E inv \in (1..MaxIngestRows) \ DOMAIN inventory, kind \in IngestKinds :
          inventory' = [i \in DOMAIN inventory \cup {inv} |->
                           IF i = inv THEN IngestedRow(kind) ELSE inventory[i]]
    /\ UNCHANGED <<products, regions, centers, max_search_results, ret, scopes>>

\* The ingestion process commits new values of a row.
IngestUpdate ==
    /\ \E inv \in DOMAIN inventory, kind \in IngestKinds :
          /\ inventory[inv] # IngestedRow(kind)
          /\ inventory' = [inventory EXCEPT ![inv] = IngestedRow(kind)]
    /\ UNCHANGED <<products, regions, centers, max_search_results, ret, scopes>>

\* The ingestion process commits the deletion of a row.
IngestDelete ==
    /\ \E inv \in DOMAIN inventory :
          inventory' = [i \in DOMAIN inventory \ {inv} |-> inventory[i]]
    /\ UNCHANGED <<products, regions, centers, max_search_results, ret, scopes>>

InitSnapshot ==
    /\ products = SeedProducts
    /\ regions = NamedRegions(1)
    /\ centers = <<[region_id |-> Some(1), category |-> NULL]>>
    /\ inventory = <<>>
    /\ max_search_results = MAX_SEARCH_RESULTS_DEFAULT
    /\ ret = NoCall
    /\ sessions = NoSessions
    /\ calls = NoAggregation

NextSnapshot ==
    \/ BeginStockStatus
    \/ LoadRegions(FALSE)
    \/ CountRegion(FALSE)
    \/ EndStockStatus
    \/ BeginStatistics
    \/ CountGlobal(FALSE)
    \/ EndStatistics
    \/ Return
    \/ IngestInsert
    \/ IngestUpdate
    \/ IngestDelete

SpecSnapshot == InitSnapshot /\ [][NextSnapshot]_vars

\* C28: with the ingestion process inserting, updating and deleting
\* inventory rows while an aggregation runs its count statements, every
\* entry of get_stock_status_by_region and the result of
\* get_medicine_statistics still has available <= total and
\* overstock + understock + normalstock + outofstock <= total.
C28_OneSnapshot ==
    /\ (ret.op = "get_regional_statistics" /\ "failed" \in DOMAIN ret /\ ~ret.failed)
          => \A i \in DOMAIN ret.outcome.value :
                LET entry == ret.outcome.value[i]
                IN  /\ entry.available_medicines <= entry.total_medicines
                    /\ entry.overstock + entry.understock + entry.normalstock
                         + entry.outofstock <= entry.total_medicines
    /\ (ret.op = "get_medicine_statistics" /\ "failed" \in DOMAIN ret /\ ~ret.failed)
          => LET stats == ret.result.value
             IN  /\ stats.available_inventory <= stats.total_inventory_records
                 /\ stats.overstock + stats.understock + stats.normalstock
                      + stats.outofstock <= stats.total_inventory_records

\* ---------------------------------------------------------------------
\* Specification: the regional and the global view of one store
\* ---------------------------------------------------------------------

MaxRegionRows == 2

\* diresa arguments: every region name holds the empty string and "a".
DiresaArgs == {<<>>, <<"a">>, <<"b">>}

InitRegions ==
    /\ products = SeedProducts
    /\ \E n \in 0..MaxStatRegions :
          /\ regions = NamedRegions(n)
          /\ centers \in StatCenterTables(n)
    /\ \E m \in 0..MaxRegionRows :
          \E kind \in [1..m -> StatRowKinds] :
             inventory = StatInventoryTable(m, kind)
    /\ max_search_results = MAX_SEARCH_RESULTS_DEFAULT
    /\ ret = NoCall
    /\ sessions = NoSessions
    /\ calls = NoCalls

RegionsByLocation ==
    /\ Idle
    /\ \E diresa \in DiresaArgs : SearchByLocation(diresa, NULL, max_search_results)

RegionsAvailable ==
    /\ Idle
    /\ \E name \in DiresaArgs : GetAvailableLocations(name, DEFAULT_MIN_STOCK)

NextRegions ==
    \/ StockStatusByRegion
    \/ MedicineStatistics
    \/ RegionsByLocation
    \/ RegionsAvailable
    \/ Return

SpecRegions == InitRegions /\ [][NextRegions]_vars

RECURSIVE SumTotalMedicines(_)
SumTotalMedicines(entries) ==
    IF entries = <<>> THEN 0
    ELSE entries[1].total_medicines + SumTotalMedicines(Tail(entries))

\* The inventory row belongs to a center whose region_id names a region.
InExistingRegion(inv) ==
    /\ inventory[inv].center_id \in DOMAIN centers
    /\ centers[inventory[inv].center_id].region_id # NULL
    /\ centers[inventory[inv].center_id].region_id[1] \in DOMAIN regions

\* The inventory row belongs to a center with a null region_id.
InNoRegion(inv) ==
    /\ inventory[inv].center_id \in DOMAIN centers
    /\ centers[inventory[inv].center_id].region_id = NULL

\* C29: on one store, the total_medicines of the region entries add up to
\* the number of inventory rows in an existing region, which is at most
\* total_inventory_records of the global statistics and equal to it
\* exactly when every inventory row is in an existing region; the global
\* total counts every row, those of centers without a region included,
\* and no such row is in a location or an availability result.
C29_RegionTotalsWithinGlobal ==
    LET total_inventory_records ==
            GetMedicineStatisticsResult(FALSE).value.total_inventory_records
    IN  /\ (ret.op = "get_stock_status_by_region" /\ ~ret.result.raised)
              => LET sum == SumTotalMedicines(ret.result.value)
                 IN  /\ sum <= total_inventory_records
                     /\ sum = total_inventory_records
                           <=> \A inv \in DOMAIN inventory : InExistingRegion(inv)
                     /\ sum = Cardinality({inv \in DOMAIN inventory : InExistingRegion(inv)})
        /\ (ret.op = "get_medicine_statistics" /\ ~ret.result.raised)
              => /\ ret.result.value.total_inventory_records = Cardinality(DOMAIN inventory)
                 /\ ret.result.value.total_inventory_records = total_inventory_records
        /\ ret.op \in {"search_by_location", "get_available_locations"}
              => \A i \in DOMAIN ret.rows : ~InNoRegion(ret.rows[i].inventory_id)

\* A store with a row in a region and a row at a center without a region:
\* the region entries add up to less than the global total.
C29_Witness ==
    /\ ret.op = "get_stock_status_by_region"
    /\ ~ret.result.raised
    /\ \E inv \in DOMAIN inventory : InNoRegion(inv)
    /\ \E inv \in DOMAIN inventory : InExistingRegion(inv)
    /\ SumTotalMedicines(ret.result.value) >= 1
    /\ SumTotalMedicines(ret.result.value) < Cardinality(DOMAIN inventory)

---------------------------------------------------------------------------
(* app/mcp/server.py: the lifespan of the server *)

\* app_lifespan is an async generator under @asynccontextmanager.  Its
\* state: where it is suspended ("try": the yield after init_db, "except":
\* the yield of the except clause), the contexts it has yielded (their
\* `initialized` flags), whether the finally clause has run, and what the
\* context manager raises into the server on exit.
NotStarted ==
    [pc |-> "start", at |-> "none", contexts |-> <<>>, shutdown |-> FALSE, raised |-> "none"]

\* try: init_db(); yield AppContext(initialized=True)
\* except Exception: yield AppContext(initialized=False)
LifespanEnter(lifespan, init_fails) ==
    IF init_fails
    THEN [lifespan EXCEPT !.pc = "serving", !.at = "except",
                          !.contexts = Append(@, FALSE)]
    ELSE [lifespan EXCEPT !.pc = "serving", !.at = "try",
                          !.contexts = Append(@, TRUE)]

\* How the body of `async with app_lifespan(server)` ends: it returns,
\* raises an Exception, or is cancelled (CancelledError, KeyboardInterrupt:
\* exceptions that are not an Exception).
LifespanBodyExits == {"returns", "raises", "cancelled"}

\* __aexit__: the generator is resumed, or the exception of the body is
\* thrown into it at the yield it is suspended at.
\*   - resumed: it runs on to the finally clause and ends;
\*   - an Exception thrown at the yield of the try block is caught by
\*     `except Exception`, whose yield suspends the generator again: the
\*     context manager raises RuntimeError("generator didn't stop after
\*     athrow()") and the finally clause has not run;
\*   - any other throw leaves through the finally clause and goes on.
LifespanExit(lifespan, exit) ==
    IF exit = "returns"
    THEN [lifespan EXCEPT !.pc = "stopped", !.at = "none", !.shutdown = TRUE]
    ELSE IF exit = "raises" /\ lifespan.at = "try"
    THEN [lifespan EXCEPT !.pc = "stopped", !.at = "except",
                          !.contexts = Append(@, FALSE),
                          !.raised = "RuntimeError"]
    ELSE [lifespan EXCEPT !.pc = "stopped", !.at = "none", !.shutdown = TRUE,
                          !.raised = exit]

\* The server starts: it enters the lifespan context.
StartServer(init_fails) ==
    /\ calls.pc = "start"
    /\ calls' = LifespanEnter(calls, init_fails)
    /\ UNCHANGED <<store, max_search_results, ret, sessions>>

\* The server, inside the lifespan context, serves a request.
ServeRequest ==
    /\ calls.pc = "serving"
    /\ Idle
    /\ \E fault \in BOOLEAN :
          ret' = [op |-> "get_medicine_statistics", fault |-> fault,
                  result |-> GetMedicineStatisticsResult(fault)]
    /\ UNCHANGED <<store, max_search_results, scopes>>

\* The server leaves the lifespan context.
StopServer(exit) ==
    /\ calls.pc = "serving"
    /\ calls' = LifespanExit(calls, exit)
    /\ UNCHANGED <<store, max_search_results, ret, sessions>>

\* The generator left suspended at its second yield is finalized (closed
\* by the event loop when it is collected): GeneratorExit is thrown at the
\* yield and the finally clause runs.  Nothing makes this happen before
\* the process ends.
FinalizeGenerator ==
    /\ calls.pc = "stopped"
    /\ calls.at = "except"
    /\ calls' = [calls EXCEPT !.at = "none", !.shutdown = TRUE]
    /\ UNCHANGED <<store, max_search_results, ret, sessions>>

InitLifespan ==
    /\ products = SeedProducts
    /\ regions = NamedRegions(1)
    /\ centers = <<[region_id |-> Some(1), category |-> NULL],
                   [region_id |-> NULL, category |-> NULL]>>
    /\ \E m \in 0..MaxStepRows :
          \E kind \in [1..m -> StatRowKinds] :
             inventory = StatInventoryTable(m, kind)
    /\ max_search_results = MAX_SEARCH_RESULTS_DEFAULT
    /\ ret = NoCall
    /\ sessions = NoSessions
    /\ calls = NotStarted

NextLifespan ==
    \/ \E init_fails \in BOOLEAN : StartServer(init_fails)
    \/ ServeRequest
    \/ Return
    \/ \E exit \in LifespanBodyExits : StopServer(exit)
    \/ FinalizeGenerator

SpecLifespan == InitLifespan /\ [][NextLifespan]_vars

\* C30: app_lifespan yields exactly one context per lifecycle, and none
\* before the server has started: while the server runs and after it has
\* stopped, whatever way its body ended, one context has been yielded;
\* and once the server has stopped the shutdown step has run.
C30_YieldsOnce ==
    /\ calls.pc = "start" => Len(calls.contexts) = 0
    /\ calls.pc \in {"serving", "stopped"} => Len(calls.contexts) = 1
    /\ calls.pc = "stopped" => calls.shutdown


===========================================================================
